---- MODULE Spec2Model ----
(***************************************************************************)
(* keepachangelog/_changelog.py as a state machine.                        *)
(*                                                                         *)
(* A Python str is a sequence of one-character strings, so that lstrip,    *)
(* rstrip, replace and the regular expressions act on characters as they   *)
(* do in the source.  A Python dict is a sequence of key/value entries in  *)
(* insertion order.  A name bound to a dict or a list is a reference: the  *)
(* model says where the object lives, so that a mutation through one name  *)
(* is seen through every other name of the same object.                    *)
(***************************************************************************)
EXTENDS Integers, Sequences, FiniteSets, TLC

VARIABLES
    pc,                \* position of the running call
    err,               \* the exception that ended the call, or "none"
    file,              \* content of the file at changelog_path: a str
    show_unreleased,   \* to_dict: the keyword argument
    parsed_changelog,  \* to_dict: Document(...).children read so far
    from_file,         \* to_dict: the document came from file (else block by block)
    sec,               \* to_dict: number of sections handled by the for loop
    changes,           \* to_dict, to_raw_dict: the dict that is returned
    scratch,           \* the dict current_release names when it is not in changes
    current_release,   \* to_dict, to_raw_dict: reference to a release dict
    category,          \* to_dict: reference to the current category value
    current_version,   \* release_version: Optional[str]
    new_version,       \* release_version: str
    input,             \* release_version, to_raw_dict: change_log.readlines()
    n,                 \* release_version, to_raw_dict: lines handled by the loop
    lines,             \* release_version: the list of output lines
    arg,               \* unlink, extract_date, add_release alone: the str passed
    ret,               \* unlink, extract_date, add_release alone: the values returned
    procs              \* release_version called twice at once: the locals of each call

vars == <<pc, err, file, show_unreleased, parsed_changelog, from_file, sec,
          changes, scratch, current_release, category, current_version,
          new_version, input, n, lines, arg, ret, procs>>

-----------------------------------------------------------------------------
(* Bounds of the model.                                                    *)

MaxBlocks == 4      \* blocks of a document handed to to_dict block by block
MaxLines == 3       \* lines of a changelog file
MaxLen == 5         \* characters of a str passed to unlink, extract_date or add_release alone

-----------------------------------------------------------------------------
(* Python str.                                                             *)

S(s) == [i \in 1..Len(s) |-> SubSeq(s, i, i)]

StartsWith(s, p) == Len(p) <= Len(s) /\ SubSeq(s, 1, Len(p)) = p

\* p occurs in s at index i
OccursAt(s, p, i) == i >= 1 /\ i + Len(p) - 1 <= Len(s) /\ SubSeq(s, i, i + Len(p) - 1) = p

Contains(s, p) == \E i \in 1..(Len(s) + 1) : OccursAt(s, p, i)

RECURSIVE Concat(_)
Concat(ss) == IF ss = <<>> THEN <<>> ELSE Head(ss) \o Concat(Tail(ss))

\* str.lstrip(chars): drop the leading run of characters of the set chars
RECURSIVE lstrip(_, _)
lstrip(s, chars) ==
    IF s # <<>> /\ Head(s) \in chars THEN lstrip(Tail(s), chars) ELSE s

\* str.rstrip(chars): drop the trailing run of characters of the set chars
RECURSIVE rstrip(_, _)
rstrip(s, chars) ==
    IF s # <<>> /\ s[Len(s)] \in chars THEN rstrip(SubSeq(s, 1, Len(s) - 1), chars) ELSE s

\* str.replace(old, new): every non-overlapping occurrence, left to right;
\* an empty old matches before every character and at the end.
NextOccurrence(s, old, from) ==
    IF \E i \in from..Len(s) : OccursAt(s, old, i)
    THEN CHOOSE i \in from..Len(s) :
            OccursAt(s, old, i) /\ \A j \in from..(i - 1) : ~OccursAt(s, old, j)
    ELSE 0

RECURSIVE ReplaceFrom(_, _, _, _)
ReplaceFrom(s, old, new, from) ==
    LET i == NextOccurrence(s, old, from)
    IN  IF i = 0 THEN SubSeq(s, from, Len(s))
        ELSE SubSeq(s, from, i - 1) \o new \o ReplaceFrom(s, old, new, i + Len(old))

ReplaceEmpty(s, new) ==
    LET b == Len(new) + 1
    IN  [p \in 1..((Len(s) + 1) * Len(new) + Len(s)) |->
            IF (p - 1) % b < Len(new) THEN new[((p - 1) % b) + 1] ELSE s[((p - 1) \div b) + 1]]

replace(s, old, new) ==
    IF old = <<>> THEN ReplaceEmpty(s, new) ELSE ReplaceFrom(s, old, new, 1)

\* the characters the regular expression class \w matches
WordChars ==
    LET w == S("abcdefghijklmnopqrstuvwxyzABCDEFGHIJKLMNOPQRSTUVWXYZ0123456789_")
    IN  {w[i] : i \in 1..Len(w)}

-----------------------------------------------------------------------------
(* Python dict, in insertion order, and the values a release dict holds.   *)

Has(d, k) == \E i \in 1..Len(d) : d[i].key = k

Get(d, k) == d[CHOOSE i \in 1..Len(d) : d[i].key = k].value

Put(d, k, v) ==
    IF Has(d, k)
    THEN [i \in 1..Len(d) |-> IF d[i].key = k THEN [key |-> k, value |-> v] ELSE d[i]]
    ELSE Append(d, [key |-> k, value |-> v])

Keys(d) == [i \in 1..Len(d) |-> d[i].key]

\* dict.setdefault(k, v): the dict afterwards (the value returned is Get of it)
setdefault(d, k, v) == IF Has(d, k) THEN d ELSE Append(d, [key |-> k, value |-> v])

PyStr(s) == [type |-> "str", str |-> s, list |-> <<>>]
PyList(l) == [type |-> "list", str |-> <<>>, list |-> l]

\* bool(value) of a str or a list
Truthy(v) == IF v.type = "str" THEN v.str # <<>> ELSE v.list # <<>>

-----------------------------------------------------------------------------
(* The block and span tokens of the parsed document.                       *)

RawText(c) == [type |-> "RawText", content |-> c, children |-> <<>>]
Link(c) == [type |-> "Link", content |-> <<>>, children |-> <<RawText(c)>>]
Emphasis(c) == [type |-> "Emphasis", content |-> <<>>, children |-> <<RawText(c)>>]

\* only a RawText has the attribute content
HasContent(token) == token.type = "RawText"

Heading(lvl, ch) == [type |-> "Heading", level |-> lvl, children |-> ch]
ListItem(ch) == [type |-> "ListItem", level |-> 0, children |-> ch]
ListBlock(items) == [type |-> "List", level |-> 0, children |-> items]
Paragraph(ch) == [type |-> "Paragraph", level |-> 0, children |-> ch]

-----------------------------------------------------------------------------
(* The functions of _changelog.py that to_dict calls.                      *)

is_release(section) == section.type = "Heading" /\ section.level = 2

unlink(value) == rstrip(lstrip(value, {"["}), {"]"})

\* extract_date with the dash stripped at both ends
extract_date_dashes(date) ==
    IF date = <<>> THEN date ELSE rstrip(lstrip(date, {" ", "-", "("}), {" ", "-", ")"})

extract_date(date) ==
    IF date = <<>> THEN date ELSE rstrip(lstrip(date, {" ", "-", "("}), {" ", ")"})

\* What add_release returns: the exception it raises or "none", the dict
\* changes afterwards, and the dict returned: the entry of changes under
\* key, or a new empty dict (fresh).
Raised(e, chg) == [raise |-> e, changes |-> chg, fresh |-> FALSE, key |-> <<>>]

\* add_release with changes[version] = {...} in place of setdefault
add_release_assign(chg, section, show) ==
    LET ch == section.children IN
    IF Len(ch) = 1 /\ ~show
    THEN [raise |-> "none", changes |-> chg, fresh |-> TRUE, key |-> <<>>]
    ELSE IF Len(ch) < 2 THEN Raised("IndexError", chg)
    ELSE LET version == IF ch[1].type = "RawText"
                        THEN unlink(ch[1].content)
                        ELSE ch[1].children[1].content
         IN  [raise |-> "none",
              changes |-> Put(chg, version,
                  << [key |-> S("version"), value |-> PyStr(version)],
                     [key |-> S("release_date"),
                      value |-> PyStr(extract_date(ch[2].content))] >>),
              fresh |-> FALSE, key |-> version]

add_release(chg, section, show) ==
    LET ch == section.children IN
    IF Len(ch) = 1 /\ ~show
    THEN [raise |-> "none", changes |-> chg, fresh |-> TRUE, key |-> <<>>]
    ELSE IF Len(ch) = 0 THEN Raised("IndexError", chg)
    ELSE LET version_token == ch[1]
             bound == version_token.type \in {"RawText", "Link"}
             version == IF version_token.type = "RawText"
                        THEN unlink(version_token.content)
                        ELSE version_token.children[1].content
         IN  IF Len(ch) < 2 THEN Raised("IndexError", chg)
             ELSE IF ~HasContent(ch[2]) THEN Raised("AttributeError", chg)
             ELSE IF ~bound THEN Raised("UnboundLocalError", chg)
             ELSE [raise |-> "none",
                   changes |-> setdefault(chg, version,
                       << [key |-> S("version"), value |-> PyStr(version)],
                          [key |-> S("release_date"),
                           value |-> PyStr(extract_date(ch[2].content))] >>),
                   fresh |-> FALSE, key |-> version]

is_category(section) == section.type = "Heading" /\ section.level = 3

\* What add_category returns: the exception or "none", the dict release
\* afterwards, and the key whose value is returned.
add_category(release, section) ==
    IF Len(section.children) = 0
    THEN [raise |-> "IndexError", release |-> release, key |-> <<>>]
    ELSE IF ~HasContent(section.children[1])
    THEN [raise |-> "AttributeError", release |-> release, key |-> <<>>]
    ELSE LET name == section.children[1].content
         IN  [raise |-> "none",
              release |-> setdefault(release, name, PyList(<<>>)),
              key |-> name]

is_list(section) == section.type = "List"

\* BaseRenderer: the text of the RawText leaves, in document order
RECURSIVE render(_)
RenderAll(tokens) == Concat([i \in 1..Len(tokens) |-> render(tokens[i])])
render(token) ==
    IF token.type = "RawText" THEN token.content ELSE RenderAll(token.children)

extract_change_entry(list_entry) == render(list_entry)

\* What add_change_list does to the object category: a str has no append.
add_change_list(value, section) ==
    IF section.children = <<>> THEN [raise |-> "none", value |-> value]
    ELSE IF value.type # "list" THEN [raise |-> "AttributeError", value |-> value]
    ELSE [raise |-> "none",
          value |-> PyList(value.list \o
              [i \in 1..Len(section.children) |->
                  extract_change_entry(section.children[i])])]

-----------------------------------------------------------------------------
(* to_dict: the loop over parsed_changelog.children.                       *)

\* The blocks a document handed over block by block is made of.
V100 == S("1.0.0")
V110 == S("1.1.0")
Unreleased == S("Unreleased")

BlockSet ==
    { Heading(2, <<RawText(S("[Unreleased]"))>>),
      Heading(2, <<Link(V100), RawText(S(" - 2020-01-01"))>>),
      Heading(2, <<RawText(S("[1.0.0]")), RawText(S(" (2019-09-09)"))>>),
      Heading(2, <<Link(V110), RawText(S(" - 2021-02-02"))>>),
      Heading(3, <<RawText(S("Added"))>>),
      Heading(3, <<RawText(S("Fixed"))>>),
      Heading(3, <<RawText(S("version"))>>),
      ListBlock(<<ListItem(<<RawText(S("a"))>>)>>),
      ListBlock(<<ListItem(<<RawText(S("b")), Emphasis(S("c"))>>),
                  ListItem(<<RawText(S("a"))>>)>>),
      Paragraph(<<RawText(S("text"))>>) }

\* The dict a reference to a release names.
ReleaseDict(ref) == IF ref.in_changes THEN Get(changes, ref.key) ELSE scratch

InScratch == [in_changes |-> FALSE, key |-> <<>>]
InChanges(version) == [in_changes |-> TRUE, key |-> version]

\* The object the name category is bound to.
Local(v) == [at |-> "local", release |-> <<>>, key |-> <<>>, value |-> v]
CategoryValue ==
    CASE category.at = "local" -> category.value
      [] category.at = "scratch" -> Get(scratch, category.key)
      [] category.at = "changes" -> Get(Get(changes, category.release), category.key)

\* The section the for loop handles next.
Sections ==
    IF from_file
    THEN IF sec < Len(parsed_changelog) THEN {parsed_changelog[sec + 1]} ELSE {}
    ELSE IF sec < MaxBlocks THEN BlockSet ELSE {}

Consume(section) ==
    /\ sec' = sec + 1
    /\ parsed_changelog' =
           IF from_file THEN parsed_changelog ELSE Append(parsed_changelog, section)

Raise(e) == pc' = "raised" /\ err' = e

ToDictFrame == <<file, show_unreleased, from_file, current_version, new_version,
                 input, n, lines, arg, ret, procs>>

\* line 79..81: changes = {}, current_release = {}, category = []
ToDictLocals ==
    /\ changes = <<>>
    /\ scratch = <<>>
    /\ current_release = InScratch
    /\ category = Local(PyList(<<>>))
    /\ sec = 0

\* line 87 with a skipped heading leaving current_release as it was
assign_current_release_kept(r, cur) == IF r.fresh THEN cur ELSE InChanges(r.key)

\* line 87: the dict current_release is bound to after add_release returned r
assign_current_release(r, cur) == IF r.fresh THEN InScratch ELSE InChanges(r.key)

\* lines 86-87
to_dict_release ==
    /\ pc = "to_dict"
    /\ \E section \in Sections :
        /\ is_release(section)
        /\ Consume(section)
        /\ LET r == add_release(changes, section, show_unreleased) IN
           IF r.raise # "none"
           THEN Raise(r.raise) /\ UNCHANGED <<changes, scratch, current_release, category>>
           ELSE /\ changes' = r.changes
                /\ UNCHANGED <<pc, err>>
                /\ current_release' = assign_current_release(r, current_release)
                \* the dict current_release named before lives on only through
                \* the name category
                /\ scratch' = IF current_release'.in_changes \/ r.fresh THEN <<>> ELSE scratch
                /\ category' = IF category.at = "scratch" /\ scratch' = <<>>
                               THEN Local(CategoryValue) ELSE category
    /\ UNCHANGED ToDictFrame

\* lines 88-89
to_dict_category ==
    /\ pc = "to_dict"
    /\ \E section \in Sections :
        /\ ~is_release(section) /\ is_category(section)
        /\ Consume(section)
        /\ LET r == add_category(ReleaseDict(current_release), section) IN
           IF r.raise # "none"
           THEN Raise(r.raise) /\ UNCHANGED <<changes, scratch, current_release, category>>
           ELSE /\ UNCHANGED <<pc, err, current_release>>
                /\ IF current_release.in_changes
                   THEN /\ changes' = Put(changes, current_release.key, r.release)
                        /\ scratch' = scratch
                        /\ category' = [at |-> "changes", release |-> current_release.key,
                                        key |-> r.key, value |-> PyList(<<>>)]
                   ELSE /\ scratch' = r.release
                        /\ changes' = changes
                        /\ category' = [at |-> "scratch", release |-> <<>>,
                                        key |-> r.key, value |-> PyList(<<>>)]
    /\ UNCHANGED ToDictFrame

\* line 90: bool(current_release) and bool(category)
ListGuard == ReleaseDict(current_release) # <<>> /\ Truthy(CategoryValue)

\* lines 90-91
to_dict_list ==
    /\ pc = "to_dict"
    /\ \E section \in Sections :
        /\ ~is_release(section) /\ ~is_category(section) /\ is_list(section)
        /\ Consume(section)
        /\ IF ~ListGuard
           THEN UNCHANGED <<pc, err, changes, scratch, current_release, category>>
           ELSE LET r == add_change_list(CategoryValue, section) IN
                IF r.raise # "none"
                THEN Raise(r.raise) /\ UNCHANGED <<changes, scratch, current_release, category>>
                ELSE /\ UNCHANGED <<pc, err, current_release>>
                     /\ CASE category.at = "local" ->
                               /\ category' = Local(r.value)
                               /\ UNCHANGED <<changes, scratch>>
                          [] category.at = "scratch" ->
                               /\ scratch' = Put(scratch, category.key, r.value)
                               /\ UNCHANGED <<changes, category>>
                          [] category.at = "changes" ->
                               /\ changes' = Put(changes, category.release,
                                      Put(Get(changes, category.release), category.key, r.value))
                               /\ UNCHANGED <<scratch, category>>
    /\ UNCHANGED ToDictFrame

\* a section that is no release, no category and no list
to_dict_other ==
    /\ pc = "to_dict"
    /\ \E section \in Sections :
        /\ ~is_release(section) /\ ~is_category(section) /\ ~is_list(section)
        /\ Consume(section)
    /\ UNCHANGED <<pc, err, changes, scratch, current_release, category>>
    /\ UNCHANGED ToDictFrame

\* line 93: the document has no further section
to_dict_return ==
    /\ pc = "to_dict"
    /\ from_file => sec = Len(parsed_changelog)
    /\ pc' = "done"
    /\ UNCHANGED <<err, sec, parsed_changelog, changes, scratch, current_release, category>>
    /\ UNCHANGED ToDictFrame

-----------------------------------------------------------------------------
(* The changelog file and the library parser.                              *)

\* file.readlines(): the lines of text, each with its newline
RECURSIVE readlines(_)
readlines(text) ==
    IF text = <<>> THEN <<>>
    ELSE IF \E i \in 1..Len(text) : text[i] = "\n"
         THEN LET i == CHOOSE k \in 1..Len(text) :
                          text[k] = "\n" /\ \A j \in 1..(k - 1) : text[j] # "\n"
              IN  <<SubSeq(text, 1, i)>> \o readlines(SubSeq(text, i + 1, Len(text)))
         ELSE <<text>>

\* the lines a changelog file is made of
LinePool ==
    { S("## [Unreleased]\n"),
      S("## [Unreleased] - soon\n"),
      S("## [1.0.0] - 2020-01-01\n"),
      S("### Added\n"),
      S("- a\n"),
      S("[Unreleased]: https://x/compare/v1.0.0...HEAD\n"),
      S("[Unreleased]: https://x/compare/v1.0.0...\n"),
      S("[Unreleased]: https://x/compare/v1.0.0...release\n"),
      S("[Unreleased]: https://x/tree/unreleased\n"),
      S("[Unreleased]: https://x/tree/Unreleased\n"),
      S("[1.0.0]: https://x/compare/v0.9.0...v1.0.0\n"),
      S("All notable changes.\n") }

RECURSIVE FilesOf(_)
FilesOf(k) ==
    IF k = 0 THEN {<<>>}
    ELSE LET shorter == FilesOf(k - 1)
         IN  shorter \cup {f \o l : f \in shorter, l \in LinePool}

Files == FilesOf(MaxLines)

\* the label of a link reference definition line "[label]: destination", or <<>>
FootnoteLabel(line) ==
    IF /\ Len(line) > 0 /\ line[1] = "["
       /\ \E i \in 2..Len(line) : OccursAt(line, S("]: "), i)
    THEN LET i == CHOOSE k \in 2..Len(line) :
                     OccursAt(line, S("]: "), k) /\ \A j \in 2..(k - 1) : line[j] # "]"
         IN  <<SubSeq(line, 2, i - 1)>>
    ELSE <<>>

Footnotes(text_lines) ==
    {l[1] : l \in {FootnoteLabel(text_lines[i]) : i \in 1..Len(text_lines)} \ {<<>>}}

\* the span tokens of a heading text: a leading [label] is a Link when the
\* document defines the label, the rest is RawText
Inline(text, footnotes) ==
    IF text = <<>> THEN <<>>
    ELSE IF text[1] = "[" /\ \E i \in 2..Len(text) : text[i] = "]"
    THEN LET i == CHOOSE k \in 2..Len(text) :
                     text[k] = "]" /\ \A j \in 2..(k - 1) : text[j] # "]"
             label == SubSeq(text, 2, i - 1)
             rest == SubSeq(text, i + 1, Len(text))
         IN  IF label \in footnotes
             THEN <<Link(label)>> \o (IF rest = <<>> THEN <<>> ELSE <<RawText(rest)>>)
             ELSE <<RawText(text)>>
    ELSE <<RawText(text)>>

\* Document(change_log).children: one block per heading, list or paragraph
RECURSIVE Blocks(_, _, _)
Blocks(text_lines, footnotes, acc) ==
    IF text_lines = <<>> THEN acc
    ELSE LET line == rstrip(Head(text_lines), {" ", "\n"})
             rest == Tail(text_lines)
         IN  IF StartsWith(line, S("### "))
             THEN Blocks(rest, footnotes, Append(acc,
                      Heading(3, Inline(lstrip(SubSeq(line, 5, Len(line)), {" "}), footnotes))))
             ELSE IF StartsWith(line, S("## "))
             THEN Blocks(rest, footnotes, Append(acc,
                      Heading(2, Inline(lstrip(SubSeq(line, 4, Len(line)), {" "}), footnotes))))
             ELSE IF StartsWith(line, S("- "))
             THEN LET item == ListItem(<<RawText(SubSeq(line, 3, Len(line)))>>)
                  IN  IF acc # <<>> /\ acc[Len(acc)].type = "List"
                      THEN Blocks(rest, footnotes,
                               [acc EXCEPT ![Len(acc)].children = Append(@, item)])
                      ELSE Blocks(rest, footnotes, Append(acc, ListBlock(<<item>>)))
             ELSE IF line = <<>> \/ FootnoteLabel(line) # <<>>
             THEN Blocks(rest, footnotes, acc)
             ELSE Blocks(rest, footnotes, Append(acc, Paragraph(<<RawText(line)>>)))

Document(text) == Blocks(readlines(text), Footnotes(readlines(text)), <<>>)

None == [some |-> FALSE, str |-> <<>>]
Some(s) == [some |-> TRUE, str |-> s]

FileFrame == <<file, current_version, new_version, input, n, lines, arg, ret, procs>>

\* lines 82-83: open the file and parse it
to_dict_open ==
    /\ pc \in {"idle", "written"}
    /\ pc' = "to_dict"
    /\ show_unreleased' \in (IF pc = "written" THEN {TRUE} ELSE BOOLEAN)
    /\ parsed_changelog' = Document(file)
    /\ from_file' = TRUE
    /\ changes' = <<>>
    /\ scratch' = <<>>
    /\ current_release' = InScratch
    /\ category' = Local(PyList(<<>>))
    /\ sec' = 0
    /\ UNCHANGED <<err>>
    /\ UNCHANGED FileFrame

InitToDict ==
    /\ pc = "to_dict"
    /\ err = "none"
    /\ file = <<>>
    /\ show_unreleased \in BOOLEAN
    /\ parsed_changelog = <<>>
    /\ from_file = FALSE
    /\ ToDictLocals
    /\ current_version = None
    /\ new_version = <<>>
    /\ input = <<>>
    /\ n = 0
    /\ lines = <<>>
    /\ arg = <<>>
    /\ ret = <<>>
    /\ procs = <<>>

NextToDict ==
    \/ to_dict_release
    \/ to_dict_category
    \/ to_dict_list
    \/ to_dict_other
    \/ to_dict_return

SpecToDict == InitToDict /\ [][NextToDict]_vars

-----------------------------------------------------------------------------
(* release_version: the loop over the lines of the file, then the rewrite. *)

\* datetime.date.today().isoformat()
Today == S("2026-11-03")

\* re.fullmatch(r"^## \[Unreleased\].*$", line, re.DOTALL)
unreleased_heading_pattern(line) == StartsWith(line, S("## [Unreleased]"))

\* re.compile(r"^\[Unreleased\]: (.*)$", re.DOTALL).fullmatch(line)
unreleased_link_pattern(line) == StartsWith(line, S("[Unreleased]: "))

\* re.fullmatch(r"^.*/(.*)\.\.\.(\w*).*$", line, re.DOTALL): the greedy
\* match takes the last "...", and the last "/" before it; group 2 is the
\* run of word characters that follows the "...".
Dots == S("...")

LastDots(line) ==
    IF \E j \in 1..Len(line) : OccursAt(line, Dots, j)
    THEN CHOOSE j \in 1..Len(line) :
            OccursAt(line, Dots, j) /\ \A k \in (j + 1)..Len(line) : ~OccursAt(line, Dots, k)
    ELSE 0

LastSlashBefore(line, j) ==
    IF \E i \in 1..(j - 1) : line[i] = "/"
    THEN CHOOSE i \in 1..(j - 1) : line[i] = "/" /\ \A k \in (i + 1)..(j - 1) : line[k] # "/"
    ELSE 0

RECURSIVE WordRun(_)
WordRun(s) ==
    IF s # <<>> /\ Head(s) \in WordChars THEN <<Head(s)>> \o WordRun(Tail(s)) ELSE <<>>

unreleased_compare_pattern(line) ==
    LET j == LastDots(line)
        i == LastSlashBefore(line, j)
    IN  IF j = 0 \/ i = 0
        THEN [matched |-> FALSE, group1 |-> <<>>, group2 |-> <<>>]
        ELSE [matched |-> TRUE,
              group1 |-> SubSeq(line, i + 1, j - 1),
              group2 |-> WordRun(SubSeq(line, j + 3, Len(line)))]

\* lines 129-133 with the new heading put before the Unreleased line
promoted_heading_first(line, new) ==
    << S("## [") \o new \o S("] - ") \o Today \o S("\n"), S("\n"), line >>

\* lines 129-133
promoted_heading(line, new) ==
    << line, S("\n"), S("## [") \o new \o S("] - ") \o Today \o S("\n") >>

\* lines 141-150, current_version a str
compare_links(line, cur, new) ==
    LET m == unreleased_compare_pattern(line)
        new_unreleased_link == replace(line, cur, new)
        current_tag == m.group1
        unreleased_tag == m.group2
        new_tag == replace(current_tag, cur, new)
    IN  << new_unreleased_link,
           replace(replace(replace(line, new, cur), unreleased_tag, new_tag),
                   Unreleased, new) >>

\* lines 153-154
plain_links(line, new) == << line, replace(line, Unreleased, new) >>

RvFrame == <<err, file, show_unreleased, parsed_changelog, from_file, sec, changes,
             scratch, current_release, category, arg, ret, procs>>

CurrentVersions == {None, Some(V100)}
NewVersions == {V110}

\* lines 120-126 with the file opened for writing before it is scanned
release_version_call_truncating ==
    /\ pc = "idle"
    /\ pc' = "release_version"
    /\ current_version' \in CurrentVersions
    /\ new_version' \in NewVersions
    /\ input' = readlines(file)
    /\ n' = 0
    /\ lines' = <<>>
    /\ file' = <<>>
    /\ UNCHANGED <<err, show_unreleased, parsed_changelog, from_file, sec, changes,
                   scratch, current_release, category, arg, ret, procs>>

\* lines 120-126
release_version_call ==
    /\ pc = "idle"
    /\ pc' = "release_version"
    /\ current_version' \in CurrentVersions
    /\ new_version' \in NewVersions
    /\ input' = readlines(file)
    /\ n' = 0
    /\ lines' = <<>>
    /\ UNCHANGED RvFrame

\* the line the for loop handles next
Line == input[n + 1]

\* lines 128-133
release_version_heading ==
    /\ pc = "release_version" /\ n < Len(input)
    /\ unreleased_heading_pattern(Line)
    /\ lines' = lines \o promoted_heading(Line, new_version)
    /\ n' = n + 1
    /\ UNCHANGED <<pc, current_version, new_version, input>>
    /\ UNCHANGED RvFrame

\* lines 135-150; str.replace(None, ...) raises TypeError
release_version_compare_link ==
    /\ pc = "release_version" /\ n < Len(input)
    /\ ~unreleased_heading_pattern(Line)
    /\ unreleased_link_pattern(Line)
    /\ unreleased_compare_pattern(Line).matched
    /\ n' = n + 1
    /\ IF current_version.some
       THEN /\ lines' = lines \o compare_links(Line, current_version.str, new_version)
            /\ UNCHANGED <<pc, err>>
       ELSE /\ Raise("TypeError")
            /\ lines' = lines
    /\ UNCHANGED <<file, current_version, new_version, input>>
    /\ UNCHANGED <<show_unreleased, parsed_changelog, from_file, sec, changes,
                   scratch, current_release, category, arg, ret, procs>>

\* lines 152-154
release_version_plain_link ==
    /\ pc = "release_version" /\ n < Len(input)
    /\ ~unreleased_heading_pattern(Line)
    /\ unreleased_link_pattern(Line)
    /\ ~unreleased_compare_pattern(Line).matched
    /\ lines' = lines \o plain_links(Line, new_version)
    /\ n' = n + 1
    /\ UNCHANGED <<pc, current_version, new_version, input>>
    /\ UNCHANGED RvFrame

\* lines 155-156 with the line appended without its newline
release_version_other_rstripped ==
    /\ pc = "release_version" /\ n < Len(input)
    /\ ~unreleased_heading_pattern(Line)
    /\ ~unreleased_link_pattern(Line)
    /\ lines' = Append(lines, rstrip(Line, {"\n"}))
    /\ n' = n + 1
    /\ UNCHANGED <<pc, current_version, new_version, input>>
    /\ UNCHANGED RvFrame

\* lines 155-156
release_version_other ==
    /\ pc = "release_version" /\ n < Len(input)
    /\ ~unreleased_heading_pattern(Line)
    /\ ~unreleased_link_pattern(Line)
    /\ lines' = Append(lines, Line)
    /\ n' = n + 1
    /\ UNCHANGED <<pc, current_version, new_version, input>>
    /\ UNCHANGED RvFrame

\* lines 158-159: the file is opened for writing after the loop
release_version_write ==
    /\ pc = "release_version" /\ n = Len(input)
    /\ file' = Concat(lines)
    /\ pc' = "written"
    /\ UNCHANGED <<err, show_unreleased, parsed_changelog, from_file, sec, changes,
                   scratch, current_release, category>>
    /\ UNCHANGED <<current_version, new_version, input, n, lines, arg, ret, procs>>

-----------------------------------------------------------------------------
(* to_raw_dict: the loop over the lines of the file.                       *)

\* str.strip(" \n")
strip(s, chars) == rstrip(lstrip(s, chars), chars)

\* the names the module defines or imports; is_information is not among them
ModuleNames ==
    {"is_release", "add_release", "unlink", "extract_date", "is_category",
     "add_category", "link_pattern", "is_list", "extract_change_entry",
     "add_change_list", "to_dict", "to_raw_dict", "release", "release_version",
     "guess_unreleased_version"}

\* lines 97-100
to_raw_dict_call ==
    /\ pc = "idle"
    /\ pc' = "to_raw_dict"
    /\ changes' = <<>>
    /\ scratch' = <<>>
    /\ current_release' = InScratch
    /\ input' = readlines(file)
    /\ n' = 0
    /\ UNCHANGED <<err, file, show_unreleased, parsed_changelog, from_file, sec,
                   category, current_version, new_version, lines, arg, ret, procs>>

\* lines 101-108: clean_line is a str, which is_release and is_category
\* test as if it were a block token
to_raw_dict_line ==
    /\ pc = "to_raw_dict" /\ n < Len(input)
    /\ n' = n + 1
    /\ LET clean_line == PyStr(strip(Line, {" ", "\n"})) IN
       IF is_release(clean_line)
       THEN LET r == add_release(changes, clean_line, FALSE) IN
            /\ changes' = r.changes
            /\ current_release' = assign_current_release(r, current_release)
            /\ scratch' = <<>>
            /\ UNCHANGED <<pc, err>>
       ELSE IF is_category(clean_line)
       THEN LET raw == IF Has(ReleaseDict(current_release), S("raw"))
                       THEN Get(ReleaseDict(current_release), S("raw")).str ELSE <<>>
                updated == Put(ReleaseDict(current_release), S("raw"), PyStr(raw \o Line))
            IN  /\ IF current_release.in_changes
                   THEN changes' = Put(changes, current_release.key, updated)
                        /\ scratch' = scratch
                   ELSE scratch' = updated /\ changes' = changes
                /\ UNCHANGED <<pc, err, current_release>>
       ELSE IF "is_information" \notin ModuleNames
       THEN Raise("NameError") /\ UNCHANGED <<changes, scratch, current_release>>
       ELSE UNCHANGED <<pc, err, changes, scratch, current_release>>
    /\ UNCHANGED <<file, show_unreleased, parsed_changelog, from_file, sec,
                   category, current_version, new_version, input, lines, arg, ret, procs>>

\* line 110
to_raw_dict_return ==
    /\ pc = "to_raw_dict" /\ n = Len(input)
    /\ pc' = "raw_done"
    /\ UNCHANGED <<err, file, show_unreleased, parsed_changelog, from_file, sec, changes,
                   scratch, current_release, category, current_version, new_version,
                   input, n, lines, arg, ret, procs>>

-----------------------------------------------------------------------------
(* The calls on a changelog file.                                          *)

Init ==
    /\ pc = "idle"
    /\ err = "none"
    /\ file \in Files
    /\ show_unreleased = FALSE
    /\ parsed_changelog = <<>>
    /\ from_file = TRUE
    /\ ToDictLocals
    /\ current_version = None
    /\ new_version = <<>>
    /\ input = <<>>
    /\ n = 0
    /\ lines = <<>>
    /\ arg = <<>>
    /\ ret = <<>>
    /\ procs = <<>>

Next ==
    \/ to_dict_open
    \/ to_dict_release
    \/ to_dict_category
    \/ to_dict_list
    \/ to_dict_other
    \/ to_dict_return
    \/ release_version_call
    \/ release_version_heading
    \/ release_version_compare_link
    \/ release_version_plain_link
    \/ release_version_other
    \/ release_version_write
    \/ to_raw_dict_call
    \/ to_raw_dict_line
    \/ to_raw_dict_return

Spec == Init /\ [][Next]_vars

-----------------------------------------------------------------------------
(* release_version called twice at once on the same changelog_path.  The   *)
(* calls share the file and nothing else; each has its own locals.         *)

Procs == {1, 2}

V120 == S("1.2.0")

\* the arguments of the two calls: the same current_version, a str, and
\* one new_version each
NewVersionOf == <<V110, V120>>

\* lines 128-156: the lines the loop appends for one line
emit(line, cur, new) ==
    IF unreleased_heading_pattern(line) THEN promoted_heading(line, new)
    ELSE IF unreleased_link_pattern(line)
    THEN IF unreleased_compare_pattern(line).matched
         THEN compare_links(line, cur, new)
         ELSE plain_links(line, new)
    ELSE <<line>>

\* lines 126-156: the lines the loop appends for all the lines
RECURSIVE rewrite(_, _, _)
rewrite(ls, cur, new) ==
    IF ls = <<>> THEN <<>> ELSE emit(Head(ls), cur, new) \o rewrite(Tail(ls), cur, new)

\* the lines of the files the two calls are run on
ConcurrentPool ==
    { S("## [Unreleased]\n"),
      S("### Added\n"),
      S("- a\n"),
      S("[Unreleased]: https://x/compare/v1.0.0...HEAD\n") }

RECURSIVE ConcurrentFilesOf(_)
ConcurrentFilesOf(k) ==
    IF k = 0 THEN {<<>>}
    ELSE LET shorter == ConcurrentFilesOf(k - 1)
         IN  shorter \cup {f \o l : f \in shorter, l \in ConcurrentPool}

ConcurrentFrame == <<pc, err, show_unreleased, parsed_changelog, from_file, sec, changes,
                     scratch, current_release, category, current_version, new_version,
                     input, n, lines, arg, ret>>

\* lines 120-126: the call p reads the whole file
concurrent_call(p) ==
    /\ procs[p].pc = "idle"
    /\ procs' = [procs EXCEPT ![p] = [pc |-> "release_version",
                                       current_version |-> V100,
                                       new_version |-> NewVersionOf[p],
                                       input |-> readlines(file),
                                       n |-> 0,
                                       lines |-> <<>>]]
    /\ UNCHANGED file
    /\ UNCHANGED ConcurrentFrame

\* lines 126-156: the call p handles its next line
concurrent_line(p) ==
    /\ procs[p].pc = "release_version"
    /\ procs[p].n < Len(procs[p].input)
    /\ procs' = [procs EXCEPT
           ![p].lines = @ \o emit(procs[p].input[procs[p].n + 1],
                                  procs[p].current_version, procs[p].new_version),
           ![p].n = @ + 1]
    /\ UNCHANGED file
    /\ UNCHANGED ConcurrentFrame

\* lines 158-159 with the file read again and rewritten in the same step
written_content_reread(p) ==
    Concat(rewrite(readlines(file), procs[p].current_version, procs[p].new_version))

\* lines 158-159: what the call p writes
written_content(p) == Concat(procs[p].lines)

\* lines 158-159: the call p rewrites the file
concurrent_write(p) ==
    /\ procs[p].pc = "release_version"
    /\ procs[p].n = Len(procs[p].input)
    /\ file' = written_content(p)
    /\ procs' = [procs EXCEPT ![p].pc = "written"]
    /\ UNCHANGED ConcurrentFrame

InitConcurrent ==
    /\ pc = "concurrent"
    /\ err = "none"
    /\ file \in ConcurrentFilesOf(MaxLines)
    /\ show_unreleased = FALSE
    /\ parsed_changelog = <<>>
    /\ from_file = TRUE
    /\ ToDictLocals
    /\ current_version = None
    /\ new_version = <<>>
    /\ input = <<>>
    /\ n = 0
    /\ lines = <<>>
    /\ arg = <<>>
    /\ ret = <<>>
    /\ procs = [p \in Procs |-> [pc |-> "idle", current_version |-> V100,
                                  new_version |-> NewVersionOf[p],
                                  input |-> <<>>, n |-> 0, lines |-> <<>>]]

NextConcurrent ==
    \E p \in Procs :
        \/ concurrent_call(p)
        \/ concurrent_line(p)
        \/ concurrent_write(p)

SpecConcurrent == InitConcurrent /\ [][NextConcurrent]_vars

-----------------------------------------------------------------------------
(* unlink, extract_date and add_release called alone on a str.             *)

\* the characters of a date text and of a version token
DateChars == {" ", "-", "(", ")", "2"}
TokenChars == {"[", "]", "1", "."}

RECURSIVE Strs(_, _)
Strs(chars, k) ==
    IF k = 0 THEN {<<>>}
    ELSE LET shorter == Strs(chars, k - 1)
         IN  shorter \cup {Append(s, c) : s \in shorter, c \in chars}

PureFrame == <<err, file, show_unreleased, parsed_changelog, from_file, sec, changes,
               scratch, current_release, category, current_version, new_version,
               input, n, lines, procs>>

\* lines 40-44
extract_date_call ==
    /\ pc = "call"
    /\ pc' = "extract_date"
    /\ ret' = <<extract_date(arg)>>
    /\ UNCHANGED arg
    /\ UNCHANGED PureFrame

\* lines 40-44, on the date extract_date returned
extract_date_again ==
    /\ pc = "extract_date"
    /\ pc' = "extract_date_twice"
    /\ ret' = Append(ret, extract_date(ret[1]))
    /\ UNCHANGED arg
    /\ UNCHANGED PureFrame

\* lines 36-37
unlink_call ==
    /\ pc = "call"
    /\ pc' = "unlink"
    /\ ret' = <<unlink(arg)>>
    /\ UNCHANGED arg
    /\ UNCHANGED PureFrame

\* the version add_release registers in an empty changes for a heading
\* whose first child is version_token and whose second is a date
VersionRegistered(version_token) ==
    Keys(add_release(<<>>, Heading(2, <<version_token, RawText(S(" - 2020-01-01"))>>),
                     FALSE).changes)

\* lines 22-33, for the heading whose version token is a Link of text arg
\* and for the heading whose version token is the RawText arg
add_release_call ==
    /\ pc = "call"
    /\ pc' = "add_release"
    /\ ret' = VersionRegistered(Link(arg)) \o VersionRegistered(RawText(arg))
    /\ UNCHANGED arg
    /\ UNCHANGED PureFrame

InitPure ==
    /\ pc = "call"
    /\ err = "none"
    /\ file = <<>>
    /\ show_unreleased = FALSE
    /\ parsed_changelog = <<>>
    /\ from_file = FALSE
    /\ ToDictLocals
    /\ current_version = None
    /\ new_version = <<>>
    /\ input = <<>>
    /\ n = 0
    /\ lines = <<>>
    /\ arg \in Strs(DateChars, MaxLen) \cup Strs(TokenChars, MaxLen)
    /\ ret = <<>>
    /\ procs = <<>>

NextPure ==
    \/ extract_date_call
    \/ extract_date_again
    \/ unlink_call
    \/ add_release_call

SpecPure == InitPure /\ [][NextPure]_vars

-----------------------------------------------------------------------------
(* What the document read so far says, for the properties of to_dict.      *)

\* the sections the loop has handled without raising
Handled ==
    SubSeq(parsed_changelog, 1, IF pc = "raised" THEN sec - 1 ELSE sec)

Range(s) == {s[i] : i \in 1..Len(s)}

RECURSIVE Dedup(_)
Dedup(s) ==
    IF s = <<>> THEN <<>>
    ELSE LET d == Dedup(SubSeq(s, 1, Len(s) - 1))
         IN  IF s[Len(s)] \in Range(d) THEN d ELSE Append(d, s[Len(s)])

Dateless(section) == is_release(section) /\ Len(section.children) = 1

\* a release heading that names a version and a date
Dated(section) == is_release(section) /\ Len(section.children) >= 2

VersionOf(section) ==
    IF section.children[1].type = "RawText"
    THEN unlink(section.children[1].content)
    ELSE section.children[1].children[1].content

\* index of the last release heading before position i of doc, or 0
ReleaseBefore(doc, i) ==
    IF \E j \in 1..(i - 1) : is_release(doc[j])
    THEN CHOOSE j \in 1..(i - 1) :
            is_release(doc[j]) /\ \A k \in (j + 1)..(i - 1) : ~is_release(doc[k])
    ELSE 0

\* doc[i] lies beneath a registered release heading of version v
Beneath(doc, i, v) ==
    LET j == ReleaseBefore(doc, i)
    IN  j > 0 /\ Dated(doc[j]) /\ VersionOf(doc[j]) = v

\* index of the last category heading between the release heading before i and i, or 0
CategoryBefore(doc, i) ==
    LET j == ReleaseBefore(doc, i)
    IN  IF \E c \in (j + 1)..(i - 1) : is_category(doc[c])
        THEN CHOOSE c \in (j + 1)..(i - 1) :
                is_category(doc[c]) /\ \A k \in (c + 1)..(i - 1) : ~is_category(doc[k])
        ELSE 0

CategoryName(section) == section.children[1].content

Reserved == {S("version"), S("release_date")}

\* the entries the lists beneath category name of release v hold, in document order
RECURSIVE ItemsBeneath(_, _, _, _)
ItemsBeneath(doc, i, v, name) ==
    IF i = 0 THEN <<>>
    ELSE ItemsBeneath(doc, i - 1, v, name) \o
         ( IF /\ is_list(doc[i])
              /\ Beneath(doc, i, v)
              /\ CategoryBefore(doc, i) > 0
              /\ CategoryName(doc[CategoryBefore(doc, i)]) = name
           THEN [k \in 1..Len(doc[i].children) |-> render(doc[i].children[k])]
           ELSE <<>> )

\* the versions of the registered release headings, in document order
RECURSIVE RegisteredVersions(_)
RegisteredVersions(doc) ==
    IF doc = <<>> THEN <<>>
    ELSE LET last == doc[Len(doc)]
             rest == RegisteredVersions(SubSeq(doc, 1, Len(doc) - 1))
         IN  IF Dated(last) THEN Append(rest, VersionOf(last)) ELSE rest

FirstHeading(doc, v) ==
    doc[CHOOSE i \in 1..Len(doc) :
            /\ Dated(doc[i]) /\ VersionOf(doc[i]) = v
            /\ \A j \in 1..(i - 1) : ~(Dated(doc[j]) /\ VersionOf(doc[j]) = v)]

-----------------------------------------------------------------------------
(* Properties.                                                             *)

\* C1: when to_dict has returned, every category of every release holds
\* exactly the rendered items of the lists beneath it, in document order,
\* duplicates kept.
C1_ListItemsAppended ==
    pc = "done" =>
        \A i \in 1..Len(changes) :
            LET rel == changes[i].value IN
            \A k \in 1..Len(rel) :
                rel[k].key \notin Reserved =>
                    rel[k].value =
                        PyList(ItemsBeneath(Handled, Len(Handled), changes[i].key, rel[k].key))

\* C2: changes holds one release per version, keyed in the order of the first
\* heading of each version; a release keeps the version and the date of its
\* first heading and every category read beneath any heading of its version.
C2_OneReleasePerVersion ==
    LET doc == Handled IN
    /\ Keys(changes) = Dedup(RegisteredVersions(doc))
    /\ \A i \in 1..Len(changes) :
        LET v == changes[i].key
            rel == changes[i].value
        IN  /\ Get(rel, S("version")) = PyStr(v)
            /\ Get(rel, S("release_date")) =
                   PyStr(extract_date(FirstHeading(doc, v).children[2].content))
            /\ \A j \in 1..Len(doc) :
                   is_category(doc[j]) /\ Beneath(doc, j, v) => Has(rel, CategoryName(doc[j]))

\* a version read twice, with another date, after a category of its first heading
C2_Witness ==
    /\ pc = "done"
    /\ Len(changes) = 1
    /\ Len(RegisteredVersions(Handled)) = 2
    /\ Has(changes[1].value, S("Added"))
    /\ \E j \in 1..Len(Handled) :
           /\ Dated(Handled[j])
           /\ extract_date(Handled[j].children[2].content) #
                  Get(changes[1].value, S("release_date")).str

\* C3: with show_unreleased, a release heading [Unreleased] with one inline
\* child is registered under "Unreleased" with release_date "".
C3_UnreleasedRegistered ==
    ( /\ show_unreleased
      /\ sec >= 1
      /\ parsed_changelog[sec] = Heading(2, <<RawText(S("[Unreleased]"))>>) )
    => /\ pc # "raised"
       /\ Has(changes, Unreleased)
       /\ Get(Get(changes, Unreleased), S("release_date")) = PyStr(<<>>)

\* the last release heading read is a dateless one
InSkipped(doc) ==
    LET j == ReleaseBefore(doc, Len(doc) + 1) IN j > 0 /\ Dateless(doc[j])

\* C4: without show_unreleased, handling a dateless release heading, or any
\* block between it and the next release heading, leaves changes as it was.
C4_SkippedReleaseOmitted ==
    [][ ( /\ ~show_unreleased
          /\ sec' = sec + 1
          /\ InSkipped(SubSeq(parsed_changelog', 1, sec')) )
        => changes' = changes ]_vars

\* a category and a list read after a skipped heading that follows a registered release
C4_Witness ==
    /\ pc = "done"
    /\ ~show_unreleased
    /\ Len(changes) = 1
    /\ InSkipped(Handled)
    /\ \E i, j, k \in 1..Len(Handled) :
          /\ i < j /\ j < k
          /\ Dateless(Handled[i]) /\ is_category(Handled[j]) /\ is_list(Handled[k])

\* C10: every category heading beneath a registered release has a key in
\* that release which maps to a sequence, empty when no list lies beneath
\* it; the category keys are in the order of their first headings.
C10_CategoryKeys ==
    LET doc == Handled IN
    \A i \in 1..Len(changes) :
        LET v == changes[i].key
            rel == changes[i].value
            names == [j \in 1..Len(doc) |->
                         IF is_category(doc[j]) /\ Beneath(doc, j, v)
                         THEN <<CategoryName(doc[j])>> ELSE <<>>]
        IN  /\ SubSeq(Keys(rel), 3, Len(rel)) = Dedup(Concat(names))
            /\ \A j \in 1..Len(doc) :
                  is_category(doc[j]) /\ Beneath(doc, j, v) =>
                      /\ Has(rel, CategoryName(doc[j]))
                      /\ Get(rel, CategoryName(doc[j])).type = "list"
                      /\ ( ItemsBeneath(doc, Len(doc), v, CategoryName(doc[j])) = <<>>
                           => Get(rel, CategoryName(doc[j])) = PyList(<<>>) )

\* the last block of doc is a list beneath a registered release heading,
\* with no category heading between the two
ListBeforeCategory(doc) ==
    /\ doc # <<>>
    /\ is_list(doc[Len(doc)])
    /\ ReleaseBefore(doc, Len(doc)) > 0
    /\ Dated(doc[ReleaseBefore(doc, Len(doc))])
    /\ CategoryBefore(doc, Len(doc)) = 0

\* C16: a list read after a registered release heading and before any
\* category heading of that release is dropped: the loop goes on and no
\* release, the new one and the earlier ones, is changed by it.
C16_ListBeforeCategoryDropped ==
    [][ ( /\ pc = "to_dict"
          /\ sec' = sec + 1
          /\ ListBeforeCategory(SubSeq(parsed_changelog', 1, sec')) )
        => ( changes' = changes /\ pc' = "to_dict" ) ]_vars

-----------------------------------------------------------------------------
(* Properties of release_version.                                          *)

\* the number of lines release_version emits for an input line
EmitCount(line) ==
    IF unreleased_heading_pattern(line) THEN 3
    ELSE IF unreleased_link_pattern(line) THEN 2 ELSE 1

\* the number of lines emitted for the input lines before line k
RECURSIVE Offset(_)
Offset(k) == IF k <= 1 THEN 0 ELSE Offset(k - 1) + EmitCount(input[k - 1])

InReleaseVersion == pc \in {"release_version", "written"}

NewHeading == S("## [") \o new_version \o S("] - ") \o Today \o S("\n")

\* C5: for every line "## [Unreleased]..." release_version emits the line,
\* a blank line and the heading of the new version, in this order, and what
\* followed the Unreleased heading follows the new heading in the file.
C5_HeadingPromoted ==
    InReleaseVersion =>
        /\ \A k \in 1..n :
               unreleased_heading_pattern(input[k]) =>
                   /\ Len(lines) >= Offset(k) + 3
                   /\ SubSeq(lines, Offset(k) + 1, Offset(k) + 3) =
                          << input[k], S("\n"), NewHeading >>
        /\ pc = "written" => file = Concat(lines)

\* an Unreleased heading with content beneath it has been promoted and written
C5_Witness ==
    /\ pc = "written"
    /\ \E k \in 1..(Len(input) - 1) :
           /\ unreleased_heading_pattern(input[k])
           /\ input[k + 1] = S("### Added\n")
           /\ SubSeq(lines, Offset(k) + 3, Offset(k) + 4) = << NewHeading, input[k + 1] >>
    /\ Contains(file, S("## [Unreleased]\n\n## [1.1.0] - 2026-11-03\n### Added\n"))

\* the url of a line "[Unreleased]: url"
UrlOf(line) == SubSeq(line, Len(S("[Unreleased]: ")) + 1, Len(line))

EndsWith(s, p) == Len(p) <= Len(s) /\ SubSeq(s, Len(s) - Len(p) + 1, Len(s)) = p

\* what follows the right ref of a line of the compare shape
AfterRightRef(line) ==
    SubSeq(line, LastDots(line) + 3 + Len(unreleased_compare_pattern(line).group2), Len(line))

\* C6: for every line "[Unreleased]: url" of the compare shape, with a right
\* ref and a left ref that holds current_version, release_version emits the line with
\* current_version replaced by new_version, then a line labelled
\* [new_version] whose url compares the left ref with the left ref in which
\* current_version is replaced by new_version.
C6_CompareLinks ==
    ( InReleaseVersion /\ current_version.some ) =>
        \A k \in 1..n :
            LET line == input[k]
                m == unreleased_compare_pattern(line)
                cur == current_version.str
            IN  ( /\ ~unreleased_heading_pattern(line)
                  /\ unreleased_link_pattern(line)
                  /\ m.matched
                  /\ m.group2 # <<>>
                  /\ Contains(m.group1, cur) ) =>
                    /\ Len(lines) >= Offset(k) + 2
                    /\ lines[Offset(k) + 1] = replace(line, cur, new_version)
                    /\ StartsWith(lines[Offset(k) + 2], S("[") \o new_version \o S("]: "))
                    /\ EndsWith(lines[Offset(k) + 2],
                           S("/") \o m.group1 \o Dots \o replace(m.group1, cur, new_version)
                           \o AfterRightRef(line))

\* C7: for every line "[Unreleased]: url" that has not the compare shape,
\* release_version emits the line, then "[new_version]: url" with the same url.
C7_PlainLinkUrlKept ==
    InReleaseVersion =>
        \A k \in 1..n :
            LET line == input[k] IN
            ( /\ ~unreleased_heading_pattern(line)
              /\ unreleased_link_pattern(line)
              /\ ~unreleased_compare_pattern(line).matched ) =>
                /\ Len(lines) >= Offset(k) + 2
                /\ lines[Offset(k) + 1] = line
                /\ lines[Offset(k) + 2] = S("[") \o new_version \o S("]: ") \o UrlOf(line)

\* release_version is the only call that raises TypeError
ReleaseVersionRaised == pc = "raised" /\ err = "TypeError"

NoUnreleasedHeading == \A k \in 1..Len(input) : ~unreleased_heading_pattern(input[k])

\* C11: when no line of the input matches "## [Unreleased]", release_version
\* does not raise, whatever current_version and the other lines are, and it
\* emits no heading line of new_version.
C11_NoHeadingNoRaise ==
    ( (InReleaseVersion \/ ReleaseVersionRaised) /\ NoUnreleasedHeading ) =>
        /\ pc # "raised"
        /\ \A i \in 1..Len(lines) :
               ~StartsWith(lines[i], S("## [") \o new_version \o S("] - "))

IsOther(line) == ~unreleased_heading_pattern(line) /\ ~unreleased_link_pattern(line)

\* C14: every input line that is neither an Unreleased heading nor an
\* Unreleased link is emitted once, unchanged, at its place among the lines
\* emitted, and release_version writes one line per input line, two more per
\* Unreleased heading and one more per Unreleased link.
C14_OtherLinesKept ==
    InReleaseVersion =>
        /\ Len(lines) = Offset(n + 1)
        /\ \A k \in 1..n : IsOther(input[k]) => lines[Offset(k) + 1] = input[k]
        /\ pc = "written" =>
               /\ file = Concat(lines)
               /\ Len(lines) = Len(input)
                      + 2 * Cardinality({k \in 1..Len(input) : unreleased_heading_pattern(input[k])})
                      + Cardinality({k \in 1..Len(input) : unreleased_link_pattern(input[k])})

\* a file with an Unreleased heading, another line and an Unreleased link has been rewritten
C14_Witness ==
    /\ pc = "written"
    /\ Len(input) = 3
    /\ unreleased_heading_pattern(input[1])
    /\ IsOther(input[2])
    /\ unreleased_link_pattern(input[3])
    /\ lines[4] = input[2]
    /\ Len(lines) = 6

\* C15: the link line of the new release is the "[Unreleased]: url" line of
\* the compare shape with the label replaced by new_version and the right
\* ref replaced by the new tag, every other character as in the line.
C15_OnlyLabelAndRightRef ==
    ( InReleaseVersion /\ current_version.some ) =>
        \A k \in 1..n :
            LET line == input[k]
                m == unreleased_compare_pattern(line)
                cur == current_version.str
            IN  ( /\ ~unreleased_heading_pattern(line)
                  /\ unreleased_link_pattern(line)
                  /\ m.matched
                  /\ ~Contains(line, new_version) ) =>
                    /\ Len(lines) >= Offset(k) + 2
                    /\ lines[Offset(k) + 2] =
                           S("[") \o new_version
                           \o SubSeq(line, Len(S("[Unreleased")) + 1, LastDots(line) + 2)
                           \o replace(m.group1, cur, new_version)
                           \o AfterRightRef(line)

BothWritten == \A p \in Procs : procs[p].pc = "written"

\* the heading release_version emits for the new_version of the call p
HeadingOf(p) == S("## [") \o procs[p].new_version \o S("] - ") \o Today \o S("\n")

\* one call read the file the other call had written
Serial ==
    \E p, q \in Procs : p # q /\ procs[q].input = readlines(Concat(procs[p].lines))

\* C13: when both calls on a file with an Unreleased heading have written,
\* the file holds the headings of both if one call read what the other
\* wrote; otherwise it is what one call alone wrote and the heading of the
\* other is lost.
C13_LostUpdate ==
    ( /\ pc = "concurrent"
      /\ BothWritten
      /\ \E k \in 1..Len(procs[1].input) : unreleased_heading_pattern(procs[1].input[k]) ) =>
        IF Serial
        THEN \A p \in Procs : Contains(file, HeadingOf(p))
        ELSE \E p \in Procs :
                 /\ file = Concat(procs[p].lines)
                 /\ \A q \in Procs \ {p} : ~Contains(file, HeadingOf(q))

\* both calls read the file before either wrote it, and the promotion of
\* the first call is not in the file
C13_Witness ==
    /\ pc = "concurrent"
    /\ BothWritten
    /\ ~Serial
    /\ procs[1].input = procs[2].input
    /\ Contains(Concat(procs[1].lines), HeadingOf(1))
    /\ ~Contains(file, HeadingOf(1))
    /\ Contains(file, HeadingOf(2))

\* C17: when release_version raises while it scans the input, the file holds
\* what it held when the call read it; the file is not written before the
\* last line has been handled.
C17_FailureKeepsFile ==
    ( pc = "release_version" \/ ReleaseVersionRaised ) => file = Concat(input)

\* release_version has raised on a compare link after it had emitted lines
C17_Witness ==
    /\ ReleaseVersionRaised
    /\ n >= 2
    /\ lines # <<>>
    /\ unreleased_compare_pattern(input[n]).matched
    /\ ~current_version.some

\* to_dict(show_unreleased=True) on the file release_version wrote has ended
PromotedParseEnded ==
    /\ pc \in {"done", "raised"}
    /\ show_unreleased
    /\ lines # <<>>
    /\ file = Concat(lines)

\* the category keys of a release dict
Categories(rel) == SubSeq(Keys(rel), 3, Len(rel))

\* C8: parsing what release_version wrote for a file with an Unreleased
\* heading returns a dict with the keys "Unreleased" and new_version, the
\* first without change entries.
C8_RoundTrip ==
    ( PromotedParseEnded /\ \E k \in 1..Len(input) : input[k] = S("## [Unreleased]\n") ) =>
        /\ pc = "done"
        /\ Has(changes, Unreleased)
        /\ Has(changes, new_version)
        /\ \A i \in 1..Len(Get(changes, Unreleased)) :
               Get(changes, Unreleased)[i].value.list = <<>>
        /\ \A k \in 1..Len(input), j \in 1..Len(input) :
               ( /\ input[k] = S("## [Unreleased]\n")
                 /\ k < j
                 /\ \A i \in (k + 1)..j : ~StartsWith(input[i], S("## "))
                 /\ StartsWith(input[j], S("### ")) ) =>
                   strip(SubSeq(input[j], 5, Len(input[j])), {" ", "\n"})
                       \in Range(Categories(Get(changes, new_version)))

\* the lines between line k and the next release heading line that are
\* neither blank nor a release heading, concatenated
RECURSIVE RawBeneath(_, _)
RawBeneath(text_lines, k) ==
    IF k > Len(text_lines) \/ StartsWith(text_lines[k], S("## ")) THEN <<>>
    ELSE (IF strip(text_lines[k], {" ", "\n"}) = <<>> THEN <<>> ELSE text_lines[k])
         \o RawBeneath(text_lines, k + 1)

\* C9: to_raw_dict returns, for every release heading line of the file, a
\* release whose "raw" is the text of the lines beneath the heading.
C9_RawLinesKept ==
    \A k \in 1..Len(input) :
        ( /\ pc = "raw_done" \/ (pc = "raised" /\ err = "NameError")
          /\ StartsWith(input[k], S("## ")) ) =>
               /\ pc = "raw_done"
               /\ \E i \in 1..Len(changes) :
                       LET rel == changes[i].value
                           raw == IF Has(rel, S("raw")) THEN Get(rel, S("raw")).str ELSE <<>>
                       IN  raw = RawBeneath(input, k + 1)

-----------------------------------------------------------------------------
(* Properties of unlink, extract_date and add_release.                     *)

\* s is a bracket-free text in one pair of brackets
Bracketed(s) ==
    /\ Len(s) >= 3
    /\ s[1] = "[" /\ s[Len(s)] = "]"
    /\ \A i \in 2..(Len(s) - 1) : s[i] \notin {"[", "]"}

\* C12: the heading whose version is the link of text "[1.2.3]" and the
\* heading whose version is the plain token "[1.2.3]" are registered under
\* the same version, the text without its brackets.
C12_LinkAndPlainAgree ==
    ( pc = "add_release" /\ Bracketed(arg) ) =>
        /\ ret[1] = ret[2]
        /\ ret[1] = SubSeq(arg, 2, Len(arg) - 1)

\* s without its leading run of characters of lead, then without the
\* trailing run of characters of trail of what is left
Trimmed(s, lead, trail) ==
    LET i == IF \E k \in 1..Len(s) : s[k] \notin lead
             THEN CHOOSE k \in 1..Len(s) :
                      s[k] \notin lead /\ \A m \in 1..(k - 1) : s[m] \in lead
             ELSE Len(s) + 1
        j == IF \E k \in i..Len(s) : s[k] \notin trail
             THEN CHOOSE k \in i..Len(s) :
                      s[k] \notin trail /\ \A m \in (k + 1)..Len(s) : s[m] \in trail
             ELSE i - 1
    IN  SubSeq(s, i, j)

\* C18: extract_date returns its input without the leading run of " ", "-"
\* and "(" and without the trailing run of " " and ")", the empty str for
\* the empty str, and the same date when it is applied to what it returned.
C18_ExtractDateTrims ==
    pc \in {"extract_date", "extract_date_twice"} =>
        /\ ret[1] = Trimmed(arg, {" ", "-", "("}, {" ", ")"})
        /\ arg = <<>> => ret[1] = <<>>
        /\ pc = "extract_date_twice" => ret[2] = ret[1]

\* a date in parentheses, with a dash inside, has been extracted twice
C18_Witness ==
    /\ pc = "extract_date_twice"
    /\ arg = S("(2-2)")
    /\ ret = <<S("2-2"), S("2-2")>>

\* s without one leading "[" and without one trailing "]"
StripOne(s) ==
    LET a == IF s # <<>> /\ Head(s) = "[" THEN Tail(s) ELSE s
    IN  IF a # <<>> /\ a[Len(a)] = "]" THEN SubSeq(a, 1, Len(a) - 1) ELSE a

\* C19: unlink returns a token in brackets without one leading "[" and
\* without one trailing "]"; further brackets are kept.
C19_OneBracketStripped ==
    ( pc = "unlink" /\ Len(arg) >= 2 /\ Head(arg) = "[" /\ arg[Len(arg)] = "]" ) =>
        ret[1] = StripOne(arg)

====
